---- MODULE Spec2Model ----
(***************************************************************************)
(* Story Voice Generator: the client Orchestrator (src/app/page.tsx with   *)
(* its presentation components), the two server proxy endpoints            *)
(* (api/voices/route.ts, api/generate-voice/route.ts) and the provider     *)
(* client (lib/elevenlabs.ts).                                             *)
(*                                                                         *)
(* Spec        the Orchestrator: one mounted Home component, driven by the *)
(*             user's controls and by the settling of its two fetches.     *)
(* LiveSpec    Spec plus the fairness of the browser's event loop.         *)
(* ServerSpec  the two route handlers, driven by arbitrary requests, the   *)
(*             provider's answers and changes of the process environment.  *)
(*                                                                         *)
(* Strings that the code inspects (text, voice_id) are sequences of        *)
(* one-character strings; messages the code only passes on are strings.    *)
(***************************************************************************)
EXTENDS Integers, Sequences, FiniteSets, TLC

VARIABLES
    \* ---- Home component (page.tsx) ----
    lifecycle,        \* "rendered" (first render done), "mounted", "unmounted"
    storyText,        \* useState("")
    voices,           \* useState<Voice[]>([]): the voice_ids, in order
    selectedVoiceId,  \* useState<string | null>(null)
    audioUrl,         \* useState<string | null>(null): a blob URL id, NoUrl for null
    isLoadingVoices,  \* useState(true)
    isGenerating,     \* useState(false)
    error,            \* useState<string | null>(null)
    hasError,         \* AudioPlayer's useState(false)
    \* ---- the browser around it ----
    voicesFetch,      \* "none", "pending", "settled": fetch("/api/voices")
    voicesRequests,   \* number of GET /api/voices requests issued
    genInFlight,      \* the POST /api/generate-voice requests not yet settled
    voicesSettled,    \* what fetch("/api/voices") settled with
    generateSettled,  \* what the generate request that settled last settled with
    started,          \* number of generate requests issued
    succeeded,        \* generations that completed with audio while mounted
    failed,           \* generations that completed with an error while mounted
    created,          \* number of URL.createObjectURL calls: URLs are 1..created
    revoked,          \* the URL.revokeObjectURL calls, in order
    \* ---- server (route handlers) ----
    env,              \* process.env.ELEVENLABS_API_KEY
    lastRequest,      \* the request handled last
    lastResponse,     \* the response to it
    clientCalls,      \* provider-client calls made while handling it
    upstreamCalls     \* fetches to the provider made while handling it

clientVars == <<lifecycle, storyText, voices, selectedVoiceId, audioUrl,
                isLoadingVoices, isGenerating, error, hasError, voicesFetch,
                voicesRequests, genInFlight, voicesSettled, generateSettled,
                started, succeeded, failed, created, revoked>>
serverVars == <<env, lastRequest, lastResponse, clientCalls, upstreamCalls>>
vars == <<clientVars, serverVars>>

(***************************************************************************)
(* Bounds                                                                  *)
(***************************************************************************)
\* stand-in for lib/constants.ts MAX_TEXT_LENGTH (100000 in the source)
MAX_TEXT_LENGTH == 2
\* generate requests one Orchestrator issues in a run
MaxGenerations == 3

(***************************************************************************)
(* Strings                                                                 *)
(***************************************************************************)
Chars == {"a", " "}
IsSpace(c) == c = " "

RECURSIVE SeqsUpTo(_)
SeqsUpTo(n) ==
    IF n = 0 THEN {<<>>}
    ELSE LET shorter == SeqsUpTo(n - 1)
         IN  shorter \cup {Append(s, c) : s \in {t \in shorter : Len(t) = n - 1}, c \in Chars}

\* every string a text box or a request can carry: one longer than the limit
Texts == SeqsUpTo(MAX_TEXT_LENGTH + 1)

RECURSIVE TrimStart(_)
TrimStart(s) == IF s # <<>> /\ IsSpace(Head(s)) THEN TrimStart(Tail(s)) ELSE s

RECURSIVE TrimEnd(_)
TrimEnd(s) ==
    IF s # <<>> /\ IsSpace(s[Len(s)]) THEN TrimEnd(SubSeq(s, 1, Len(s) - 1)) ELSE s

\* String.prototype.trim
Trim(s) == TrimEnd(TrimStart(s))

\* null of a string-valued state
Null == "<null>"
\* null of audioUrl; blob URLs are numbered from 1
NoUrl == 0

Range(s) == {s[i] : i \in 1..Len(s)}

(***************************************************************************)
(* What the two endpoints can answer, as the Orchestrator's fetches see it *)
(***************************************************************************)
VoiceLists == {<<>>, <<"v1">>, <<"v1", "v2">>}

\* fetch("/api/voices") then response.json()
VoicesOutcomes ==
    {[kind |-> "reject", success |-> FALSE, hasVoices |-> FALSE, voices |-> <<>>, error |-> Null],
     [kind |-> "badjson", success |-> FALSE, hasVoices |-> FALSE, voices |-> <<>>, error |-> Null]}
    \cup {[kind |-> "json", success |-> TRUE, hasVoices |-> TRUE, voices |-> vs, error |-> Null]
            : vs \in VoiceLists}
    \cup {[kind |-> "json", success |-> s, hasVoices |-> FALSE, voices |-> <<>>, error |-> e]
            : s \in BOOLEAN, e \in {Null, "Server configuration error: API key not set"}}

AudioMpeg == "audio/mpeg"

\* a Content-Type header value is a sequence of pieces, so that a value can
\* hold "audio/mpeg" and more: a parameter after it, or a longer subtype
\* (audio/mpeg4-generic). An absent header is the empty sequence.
NoHeader == <<>>
ContentTypes ==
    {NoHeader, <<"application/json">>, <<"text/html">>, <<AudioMpeg>>,
     <<AudioMpeg, "; charset=binary">>, <<AudioMpeg, "4-generic">>}

\* contentType?.includes(needle)
Includes(contentType, needle) == \E i \in 1..Len(contentType) : contentType[i] = needle

\* fetch("/api/generate-voice") then response.json() or response.blob():
\* kind "reject" (fetch rejects), else a response with status, Content-Type
\* and a body: "envelope" (JSON with the error field `error`, Null when it
\* has none), "notjson", "bytes" or a body whose read fails ("broken")
GenerateOutcomes ==
    {[kind |-> "reject", status |-> 0, contentType |-> NoHeader, body |-> "none",
      error |-> Null]}
    \cup {[kind |-> "response", status |-> st, contentType |-> <<"application/json">>,
           body |-> "envelope", error |-> e]
            : st \in {429, 500}, e \in {Null, "rate limited"}}
    \cup {[kind |-> "response", status |-> 500, contentType |-> <<"text/html">>,
           body |-> "notjson", error |-> Null],
          [kind |-> "response", status |-> 429, contentType |-> <<AudioMpeg>>,
           body |-> "bytes", error |-> Null],
          [kind |-> "response", status |-> 200, contentType |-> <<AudioMpeg>>,
           body |-> "broken", error |-> Null],
          [kind |-> "response", status |-> 201, contentType |-> <<"application/json">>,
           body |-> "envelope", error |-> Null]}
    \cup {[kind |-> "response", status |-> 200, contentType |-> ct, body |-> "bytes",
           error |-> Null] : ct \in ContentTypes}

\* nothing has settled yet
NoOutcome ==
    [kind |-> "none", status |-> 0, contentType |-> NoHeader, body |-> "none",
     error |-> Null]
NoVoicesOutcome ==
    [kind |-> "none", success |-> FALSE, hasVoices |-> FALSE, voices |-> <<>>, error |-> Null]

\* Response.ok
Ok(o) == o.status >= 200 /\ o.status <= 299

\* `Generation failed (${response.status})`
FallbackMessage(status) ==
    CASE status = 429 -> "Generation failed (429)"
      [] status = 500 -> "Generation failed (500)"
      [] OTHER -> "Generation failed (other)"

(***************************************************************************)
(* Home: effects                                                           *)
(***************************************************************************)
\* variant: the effect returns no cleanup
CleanupEffect_NoRevoke(url) == <<>>

\* the cleanup of the blob URL effect for the render that held `url`:
\* the revokeObjectURL calls it makes
CleanupEffect(url) == IF url # NoUrl THEN <<url>> ELSE <<>>

\* a commit of audioUrl := new. React runs the effects whose dependency
\* [audioUrl] changed: Home's cleanup for the old value, and AudioPlayer's
\* setHasError(false).
CommitAudioUrl(new) ==
    /\ audioUrl' = new
    /\ revoked' = IF new # audioUrl THEN revoked \o CleanupEffect(audioUrl) ELSE revoked
    /\ hasError' = IF new # audioUrl THEN FALSE ELSE hasError

LiveUrls == (1..created) \ Range(revoked)

(***************************************************************************)
(* Home: mount and the voices fetch                                        *)
(***************************************************************************)
\* useEffect(() => { loadVoices() }, []): issues the fetch
MountEffects ==
    /\ lifecycle = "rendered"
    /\ lifecycle' = "mounted"
    /\ voicesFetch' = "pending"
    /\ voicesRequests' = voicesRequests + 1
    /\ UNCHANGED <<storyText, voices, selectedVoiceId, audioUrl, isLoadingVoices,
                   isGenerating, error, hasError, genInFlight, started, succeeded,
                   failed, created, revoked, voicesSettled, generateSettled, serverVars>>

\* variant: setIsLoadingVoices(false) after setVoices only, with no finally
LoadVoicesUpdates_NoFinally(o) ==
    IF o.kind = "json" /\ o.success /\ o.hasVoices
    THEN voices' = o.voices /\ error' = error /\ isLoadingVoices' = FALSE
    ELSE /\ voices' = voices
         /\ error' = IF o.kind # "json" THEN "Failed to connect to server"
                     ELSE IF o.error # Null THEN o.error ELSE "Failed to load voices"
         /\ isLoadingVoices' = isLoadingVoices

\* the state updates of loadVoices once its fetch has settled with `o`
LoadVoicesUpdates(o) ==
    /\ IF o.kind = "json" /\ o.success /\ o.hasVoices
       THEN voices' = o.voices /\ error' = error
       ELSE /\ voices' = voices
            /\ error' = IF o.kind # "json" THEN "Failed to connect to server"
                        ELSE IF o.error # Null THEN o.error ELSE "Failed to load voices"
    /\ isLoadingVoices' = FALSE

\* loadVoices after `await fetch`: on an unmounted component the setters do nothing
LoadVoicesSettled ==
    /\ voicesFetch = "pending"
    /\ voicesFetch' = "settled"
    /\ \E o \in VoicesOutcomes :
         /\ voicesSettled' = o
         /\ IF lifecycle = "mounted"
            THEN LoadVoicesUpdates(o)
            ELSE UNCHANGED <<voices, error, isLoadingVoices>>
    /\ UNCHANGED <<lifecycle, storyText, selectedVoiceId, audioUrl, isGenerating,
                   hasError, voicesRequests, genInFlight, started, succeeded, failed,
                   created, revoked, generateSettled, serverVars>>

(***************************************************************************)
(* Presentation components                                                 *)
(***************************************************************************)
\* StoryInput: <textarea disabled={disabled}> with disabled={isGenerating}
StoryInputDisabled == isGenerating

\* StoryInput.handleChange
HandleChange ==
    /\ lifecycle = "mounted"
    /\ ~StoryInputDisabled
    /\ \E newValue \in Texts :
         storyText' = IF Len(newValue) <= MAX_TEXT_LENGTH THEN newValue ELSE storyText
    /\ UNCHANGED <<lifecycle, voices, selectedVoiceId, audioUrl, isLoadingVoices,
                   isGenerating, error, hasError, voicesFetch, voicesRequests,
                   genInFlight, started, succeeded, failed, created, revoked,
                   voicesSettled, generateSettled, serverVars>>

\* VoiceSelector: <select disabled={disabled || isLoading}>,
\* disabled={isGenerating || isLoadingVoices}, isLoading = voices.length === 0
VoiceSelectorDisabled == (isGenerating \/ isLoadingVoices) \/ Len(voices) = 0

\* variant: the select offers a fixed list, enabled as soon as Home is mounted
HandleVoiceChange_FixedOptions ==
    /\ lifecycle = "mounted"
    /\ ~isGenerating
    /\ \E v \in {"v1", "v2"} : selectedVoiceId' = v
    /\ UNCHANGED <<lifecycle, storyText, voices, audioUrl, isLoadingVoices,
                   isGenerating, error, hasError, voicesFetch, voicesRequests,
                   genInFlight, started, succeeded, failed, created, revoked,
                   voicesSettled, generateSettled, serverVars>>

\* VoiceSelector.handleChange: the options are the voices
HandleVoiceChange ==
    /\ lifecycle = "mounted"
    /\ ~VoiceSelectorDisabled
    /\ \E v \in Range(voices) : selectedVoiceId' = v
    /\ UNCHANGED <<lifecycle, storyText, voices, audioUrl, isLoadingVoices,
                   isGenerating, error, hasError, voicesFetch, voicesRequests,
                   genInFlight, started, succeeded, failed, created, revoked,
                   voicesSettled, generateSettled, serverVars>>

\* variant: the <audio> element is rendered without an audioUrl too
AudioError_WithoutUrl ==
    /\ lifecycle = "mounted"
    /\ ~hasError
    /\ hasError' = TRUE
    /\ error' = "Failed to play audio"
    /\ UNCHANGED <<lifecycle, storyText, voices, selectedVoiceId, audioUrl,
                   isLoadingVoices, isGenerating, voicesFetch, voicesRequests,
                   genInFlight, started, succeeded, failed, created, revoked,
                   voicesSettled, generateSettled, serverVars>>

\* AudioPlayer: the <audio> element exists when audioUrl is set and hasError is
\* false; its onError runs handleError, which calls Home's onError
AudioError ==
    /\ lifecycle = "mounted"
    /\ audioUrl # NoUrl
    /\ ~hasError
    /\ hasError' = TRUE
    /\ error' = "Failed to play audio"
    /\ UNCHANGED <<lifecycle, storyText, voices, selectedVoiceId, audioUrl,
                   isLoadingVoices, isGenerating, voicesFetch, voicesRequests,
                   genInFlight, started, succeeded, failed, created, revoked,
                   voicesSettled, generateSettled, serverVars>>

(***************************************************************************)
(* Home: generation                                                        *)
(***************************************************************************)
\* !storyText.trim() || !selectedVoiceId
GenerateGuard(text, voice) == Trim(text) = <<>> \/ voice = Null \/ voice = ""

\* isGenerateDisabled
IsGenerateDisabled(text, voice, loading) == GenerateGuard(text, voice) \/ loading

\* variant: <button disabled={disabled}>
GenerateButtonDisabled_IgnoresLoading(text, voice, loading, generating) ==
    IsGenerateDisabled(text, voice, loading)

\* GenerateButton: <button disabled={disabled || isLoading}>
GenerateButtonDisabled(text, voice, loading, generating) ==
    IsGenerateDisabled(text, voice, loading) \/ generating

\* variant: handleGenerate without setError(null)
HandleGenerate_KeepsError ==
    IF GenerateGuard(storyText, selectedVoiceId)
    THEN UNCHANGED <<isGenerating, error, audioUrl, revoked, hasError, genInFlight, started>>
    ELSE /\ isGenerating' = TRUE
         /\ error' = error
         /\ CommitAudioUrl(NoUrl)
         /\ genInFlight' = Append(genInFlight, [text |-> storyText, voice_id |-> selectedVoiceId])
         /\ started' = started + 1

\* variant: handleGenerate without setAudioUrl(null)
HandleGenerate_KeepsAudio ==
    IF GenerateGuard(storyText, selectedVoiceId)
    THEN UNCHANGED <<isGenerating, error, audioUrl, revoked, hasError, genInFlight, started>>
    ELSE /\ isGenerating' = TRUE
         /\ error' = Null
         /\ UNCHANGED <<audioUrl, revoked, hasError>>
         /\ genInFlight' = Append(genInFlight, [text |-> storyText, voice_id |-> selectedVoiceId])
         /\ started' = started + 1

\* variant: handleGenerate without its first line
HandleGenerate_NoGuard ==
    /\ isGenerating' = TRUE
    /\ error' = Null
    /\ CommitAudioUrl(NoUrl)
    /\ genInFlight' = Append(genInFlight, [text |-> storyText, voice_id |-> selectedVoiceId])
    /\ started' = started + 1

\* handleGenerate up to `await fetch`
HandleGenerate ==
    IF GenerateGuard(storyText, selectedVoiceId)
    THEN UNCHANGED <<isGenerating, error, audioUrl, revoked, hasError, genInFlight, started>>
    ELSE /\ isGenerating' = TRUE
         /\ error' = Null
         /\ CommitAudioUrl(NoUrl)
         /\ genInFlight' = Append(genInFlight, [text |-> storyText, voice_id |-> selectedVoiceId])
         /\ started' = started + 1

\* a click on the GenerateButton. React commits the updates of a click
\* handler before the next event is dispatched, so the next click sees the
\* button as the new state renders it.
ClickGenerate ==
    /\ lifecycle = "mounted"
    /\ ~GenerateButtonDisabled(storyText, selectedVoiceId, isLoadingVoices, isGenerating)
    /\ started < MaxGenerations
    /\ HandleGenerate
    /\ UNCHANGED <<lifecycle, storyText, voices, selectedVoiceId, isLoadingVoices,
                   voicesFetch, voicesRequests, succeeded, failed, created,
                   voicesSettled, generateSettled, serverVars>>

\* handleGenerate called whatever the button renders as: the function on its
\* own, as the guard of its first line sees it
InvokeGenerate ==
    /\ lifecycle = "mounted"
    /\ HandleGenerate
    /\ UNCHANGED <<lifecycle, storyText, voices, selectedVoiceId, isLoadingVoices,
                   voicesFetch, voicesRequests, succeeded, failed, created,
                   voicesSettled, generateSettled, serverVars>>

\* what handleGenerate does with a settled fetch: "audio" (blob read, URL
\* created), or the error it sets
GenerateResult(o) ==
    IF o.kind = "reject" THEN "Network error. Please try again."
    ELSE IF ~Ok(o)
         THEN IF o.body # "envelope" THEN "Network error. Please try again."
              ELSE IF o.error # Null THEN o.error ELSE FallbackMessage(o.status)
         ELSE IF Includes(o.contentType, AudioMpeg)
              THEN IF o.body = "broken" THEN "Network error. Please try again."
                   ELSE "audio"
              ELSE "Unexpected response format from server"

\* variant: setIsGenerating(false) after setAudioUrl only, with no finally
GenerateFinally_OnlyOnSuccess(r) == isGenerating' = (r # "audio")

\* finally { setIsGenerating(false) }: runs on every path, whatever result r
GenerateFinally(r) == isGenerating' = FALSE

\* handleGenerate after `await fetch`, to the end of its finally block.
\* URL.createObjectURL is a browser global: it runs whether or not Home is
\* still mounted, while the setters do nothing once it is unmounted.
HandleGenerateSettled ==
    \E i \in 1..Len(genInFlight), o \in GenerateOutcomes :
      LET r == GenerateResult(o) IN
      /\ genInFlight' = SubSeq(genInFlight, 1, i - 1) \o SubSeq(genInFlight, i + 1, Len(genInFlight))
      /\ generateSettled' = o
      /\ created' = IF r = "audio" THEN created + 1 ELSE created
      /\ IF lifecycle = "mounted"
         THEN /\ IF r = "audio"
                 THEN /\ CommitAudioUrl(created + 1)
                      /\ UNCHANGED error
                      /\ succeeded' = succeeded + 1
                      /\ UNCHANGED failed
                 ELSE /\ error' = r
                      /\ UNCHANGED <<audioUrl, revoked, hasError, succeeded>>
                      /\ failed' = failed + 1
              /\ GenerateFinally(r)
         ELSE UNCHANGED <<audioUrl, revoked, hasError, error, succeeded, failed, isGenerating>>
      /\ UNCHANGED <<lifecycle, storyText, voices, selectedVoiceId, isLoadingVoices,
                     voicesFetch, voicesRequests, started, voicesSettled, serverVars>>

\* variant: the blob URL effect runs its cleanup on change only
Unmount_NoCleanup ==
    /\ lifecycle = "mounted"
    /\ lifecycle' = "unmounted"
    /\ UNCHANGED <<storyText, voices, selectedVoiceId, audioUrl, isLoadingVoices,
                   isGenerating, error, hasError, voicesFetch, voicesRequests,
                   genInFlight, started, succeeded, failed, created, revoked,
                   voicesSettled, generateSettled, serverVars>>

\* Home is torn down: React runs the cleanup of the last blob URL effect
Unmount ==
    /\ lifecycle = "mounted"
    /\ lifecycle' = "unmounted"
    /\ revoked' = revoked \o CleanupEffect(audioUrl)
    /\ UNCHANGED <<storyText, voices, selectedVoiceId, audioUrl, isLoadingVoices,
                   isGenerating, error, hasError, voicesFetch, voicesRequests,
                   genInFlight, started, succeeded, failed, created,
                   voicesSettled, generateSettled, serverVars>>


(***************************************************************************)
(* Server: values of a parsed JSON body                                    *)
(***************************************************************************)
Undefined == [t |-> "undefined", s |-> <<>>, n |-> 0]
JNull     == [t |-> "null", s |-> <<>>, n |-> 0]
JObject   == [t |-> "object", s |-> <<>>, n |-> 0]
JNum(k)   == [t |-> "number", s |-> <<>>, n |-> k]
JStr(str) == [t |-> "string", s |-> str, n |-> 0]

\* !v
Falsy(v) ==
    \/ v.t \in {"undefined", "null"}
    \/ v.t = "number" /\ v.n = 0
    \/ v.t = "string" /\ v.s = <<>>

\* typeof v === "string"
IsString(v) == v.t = "string"

TextValues == {Undefined, JNull, JNum(0), JNum(7)} \cup {JStr(t) : t \in Texts}
VoiceIdValues == {Undefined, JNum(7), JStr(<<>>), JStr(<<"v">>)}

\* request bodies: text that is no JSON, the JSON value null, and JSON values
\* whose properties text and voice_id read as given (an object; a number,
\* string or array reads both as undefined)
Bodies ==
    {[parse |-> "malformed", text |-> Undefined, voice_id |-> Undefined],
     [parse |-> "null", text |-> Undefined, voice_id |-> Undefined]}
    \cup {[parse |-> "value", text |-> t, voice_id |-> v] : t \in TextValues, v \in VoiceIdValues}

\* values of process.env.ELEVENLABS_API_KEY: unset, empty, the placeholder
\* of .env.example, and two keys
EnvValues == {Null, "", "your_key_here", "sk-1", "sk-2"}

(***************************************************************************)
(* Provider client (lib/elevenlabs.ts)                                     *)
(***************************************************************************)
\* what the provider does with one fetch: the fetch rejects, or it answers
\* with a status, and with audio bytes, a voice list or a raw error body, or
\* it answers 200 with a body whose read throws ("broken")
ProviderStatuses == {400, 401, 404, 422, 429, 500, 503}
\* response.statusText and the body read by response.text() of a failure
ProviderSaid == {[statusText |-> "reason-1", raw |-> "raw-1"],
                 [statusText |-> "reason-2", raw |-> "raw-2"]}
ProviderOutcomes ==
    {[kind |-> "reject", status |-> 0, statusText |-> Null, bytes |-> <<>>,
      raw |-> Null, list |-> <<>>],
     [kind |-> "broken", status |-> 200, statusText |-> "OK", bytes |-> <<>>,
      raw |-> Null, list |-> <<>>]}
    \cup {[kind |-> "answer", status |-> 200, statusText |-> "OK", bytes |-> <<>>,
           raw |-> Null, list |-> <<>>],
          [kind |-> "answer", status |-> 200, statusText |-> "OK", bytes |-> <<1, 2>>,
           raw |-> Null,
           list |-> <<[voice_id |-> "v1", name |-> "Rachel", category |-> "premade",
                       description |-> "calm", preview_url |-> "p1"]>>]}
    \cup {[kind |-> "answer", status |-> st, statusText |-> said.statusText,
           bytes |-> <<>>, raw |-> said.raw, list |-> <<>>]
            : st \in ProviderStatuses, said \in ProviderSaid}

\* no fetch was made, so the provider did nothing
NoAnswer ==
    [kind |-> "none", status |-> 0, statusText |-> Null, bytes |-> <<>>, raw |-> Null,
     list |-> <<>>]

\* results of a provider-client call: a value, a thrown ElevenLabsError
\* (statusCode 0 when it has none) or another thrown error
Returned(bytes, list) ==
    [threw |-> "none", statusCode |-> 0, message |-> Null, responseBody |-> Null,
     bytes |-> bytes, list |-> list, fetched |-> TRUE]
ElevenLabsError(message, statusCode, responseBody, fetched) ==
    [threw |-> "ElevenLabsError", statusCode |-> statusCode, message |-> message,
     responseBody |-> responseBody, bytes |-> <<>>, list |-> <<>>, fetched |-> fetched]
FetchRejected ==
    [threw |-> "TypeError", statusCode |-> 0, message |-> "fetch failed",
     responseBody |-> Null, bytes |-> <<>>, list |-> <<>>, fetched |-> TRUE]
\* response.json() or response.arrayBuffer() of a 200 answer throws
BodyUnreadable ==
    [threw |-> "SyntaxError", statusCode |-> 0, message |-> "Unexpected end of JSON input",
     responseBody |-> Null, bytes |-> <<>>, list |-> <<>>, fetched |-> TRUE]

\* the reduced Voice shape
ReduceVoice(v) ==
    [voice_id |-> v.voice_id, name |-> v.name, description |-> v.description,
     category |-> v.category]

\* fetchElevenLabsVoices(apiKey), the provider doing o
FetchElevenLabsVoices(apiKey, o) ==
    IF apiKey = "" THEN ElevenLabsError("API key is required", 0, Null, FALSE)
    ELSE IF o.kind = "reject" THEN FetchRejected
    ELSE IF o.kind = "broken" THEN BodyUnreadable
    ELSE IF o.status # 200
         THEN ElevenLabsError("Failed to fetch voices: " \o o.statusText, o.status, o.raw,
                              TRUE)
         ELSE Returned(<<>>, [i \in 1..Len(o.list) |-> ReduceVoice(o.list[i])])

\* generateSpeech(apiKey, text, voiceId), the provider doing o
GenerateSpeech(apiKey, text, voiceId, o) ==
    IF apiKey = "" THEN ElevenLabsError("API key is required", 0, Null, FALSE)
    ELSE IF text = <<>> \/ Len(Trim(text)) = 0
         THEN ElevenLabsError("Text is required and cannot be empty", 0, Null, FALSE)
    ELSE IF voiceId = <<>> THEN ElevenLabsError("Voice ID is required", 0, Null, FALSE)
    ELSE IF o.kind = "reject" THEN FetchRejected
    ELSE IF o.kind = "broken" THEN BodyUnreadable
    ELSE IF o.status # 200
         THEN ElevenLabsError(
                CASE o.status = 401 -> "Invalid API key"
                  [] o.status = 422 -> "Invalid request: check text length and voice ID"
                  [] o.status = 429 -> "Rate limit exceeded: please try again later"
                  [] OTHER -> "Failed to generate speech: " \o o.statusText,
                o.status, o.raw, TRUE)
         ELSE Returned(o.bytes, <<>>)

(***************************************************************************)
(* Server: responses                                                       *)
(***************************************************************************)
NoLimit == 0 - 1

DigitChars == <<"0", "1", "2", "3", "4", "5", "6", "7", "8", "9">>

\* Number.prototype.toString of a byte count
RECURSIVE ToDecimal(_)
ToDecimal(n) ==
    IF n < 10 THEN <<DigitChars[n + 1]>>
    ELSE Append(ToDecimal(n \div 10), DigitChars[(n % 10) + 1])

\* the digits in groups of three, separated by ","
RECURSIVE GroupDigits(_)
GroupDigits(digits) ==
    IF Len(digits) <= 3 THEN digits
    ELSE GroupDigits(SubSeq(digits, 1, Len(digits) - 3)) \o <<",">>
           \o SubSeq(digits, Len(digits) - 2, Len(digits))

\* Number.prototype.toLocaleString
ToLocaleString(n) == GroupDigits(ToDecimal(n))

\* the text of the number a message or header carries, empty when none
NoNumber == <<>>

\* NextResponse.json({success: false, error}, {status}); `limit` is the number
\* interpolated into the message, NoLimit when there is none
ErrorJson(status, message, limit) ==
    [status |-> status, kind |-> "json", success |-> FALSE, error |-> message,
     limit |-> IF limit = NoLimit THEN NoNumber ELSE ToLocaleString(limit),
     voices |-> <<>>, bytes |-> <<>>,
     contentType |-> "application/json", contentLength |-> NoNumber,
     cacheControl |-> Null, contentDisposition |-> Null]

\* NextResponse.json({success: true, voices})
VoicesJson(list) ==
    [status |-> 200, kind |-> "json", success |-> TRUE, error |-> Null,
     limit |-> NoNumber, voices |-> list, bytes |-> <<>>,
     contentType |-> "application/json", contentLength |-> NoNumber,
     cacheControl |-> Null, contentDisposition |-> Null]

\* variant: Content-Length is one more than the byte count
AudioResponse_WrongLength(audioBuffer) ==
    [status |-> 200, kind |-> "audio", success |-> TRUE, error |-> Null,
     limit |-> NoNumber, voices |-> <<>>, bytes |-> audioBuffer,
     contentType |-> AudioMpeg, contentLength |-> ToDecimal(Len(audioBuffer) + 1),
     cacheControl |-> "private, max-age=3600",
     contentDisposition |-> "inline; filename=\"generated-audio.mp3\""]

\* new NextResponse(audioBuffer, {status: 200, headers})
AudioResponse(audioBuffer) ==
    [status |-> 200, kind |-> "audio", success |-> TRUE, error |-> Null,
     limit |-> NoNumber, voices |-> <<>>, bytes |-> audioBuffer,
     contentType |-> AudioMpeg, contentLength |-> ToDecimal(Len(audioBuffer)),
     cacheControl |-> "private, max-age=3600",
     contentDisposition |-> "inline; filename=\"generated-audio.mp3\""]

\* the handler threw: the framework answers 500 without the envelope
Uncaught ==
    [status |-> 500, kind |-> "uncaught", success |-> FALSE, error |-> Null,
     limit |-> NoNumber, voices |-> <<>>, bytes |-> <<>>,
     contentType |-> Null, contentLength |-> NoNumber,
     cacheControl |-> Null, contentDisposition |-> Null]

NoResponse ==
    [status |-> 0, kind |-> "none", success |-> FALSE, error |-> Null,
     limit |-> NoNumber, voices |-> <<>>, bytes |-> <<>>,
     contentType |-> Null, contentLength |-> NoNumber,
     cacheControl |-> Null, contentDisposition |-> Null]

\* what a handler did: its response and the provider-client calls and
\* provider fetches it made
Handled_Retry(response, calls, fetches) ==
    [response |-> response, clientCalls |-> calls,
     upstreamCalls |-> IF response.status >= 500 THEN fetches \o fetches ELSE fetches]
Handled(response, calls, fetches) ==
    [response |-> response, clientCalls |-> calls, upstreamCalls |-> fetches]

(***************************************************************************)
(* Server: the two route handlers                                          *)
(***************************************************************************)
MIN_TEXT_LENGTH == 1

\* variant: the key is kept from the request handled before
ReadApiKey_FromPreviousRequest ==
    IF lastRequest.endpoint = "none" THEN env ELSE lastRequest.key

\* const apiKey = process.env.ELEVENLABS_API_KEY, read in the handler
ReadApiKey == env

\* variant: !apiKey
KeyNotConfigured_PlaceholderPasses(apiKey) == apiKey = Null \/ apiKey = ""

\* !apiKey || apiKey === "your_key_here"
KeyNotConfigured(apiKey) == apiKey = Null \/ apiKey = "" \/ apiKey = "your_key_here"

\* !text || typeof text !== "string"
TextMissing(text) == Falsy(text) \/ ~IsString(text)

\* variant: text.length < MIN_TEXT_LENGTH
TextEmpty_Untrimmed(text) == Len(text.s) < MIN_TEXT_LENGTH

\* trimmedText.length < MIN_TEXT_LENGTH
TextEmpty(text) == Len(Trim(text.s)) < MIN_TEXT_LENGTH

\* variant: trimmedText.length > MAX_TEXT_LENGTH
TextTooLong_Trimmed(text) == Len(Trim(text.s)) > MAX_TEXT_LENGTH

\* text.length > MAX_TEXT_LENGTH
TextTooLong(text) == Len(text.s) > MAX_TEXT_LENGTH

\* !voice_id || typeof voice_id !== "string"
VoiceIdMissing(voice_id) == Falsy(voice_id) \/ ~IsString(voice_id)

\* variant: every provider error answered alike
GenerateCatch_Generic(r) == ErrorJson(500, "Failed to generate speech", NoLimit)

\* variant: the provider's error body is sent to the client
GenerateCatch_LeaksBody(r) ==
    IF r.threw = "ElevenLabsError"
    THEN ErrorJson(IF r.statusCode = 0 \/ r.statusCode >= 500 THEN 500 ELSE r.statusCode,
                   r.responseBody, NoLimit)
    ELSE ErrorJson(500, r.message, NoLimit)

\* the catch block of POST
GenerateCatch(r) ==
    IF r.threw = "ElevenLabsError"
    THEN LET statusCode == IF r.statusCode = 0 THEN 500 ELSE r.statusCode
             clientMessage ==
               CASE statusCode = 401 -> "Authentication failed with speech service"
                 [] statusCode = 422 -> "Invalid request: please check your text and try again"
                 [] statusCode = 429 -> "Speech service rate limit exceeded, please try again later"
                 [] OTHER -> "Failed to generate speech"
         IN  ErrorJson(IF statusCode >= 500 THEN 500 ELSE statusCode, clientMessage, NoLimit)
    ELSE ErrorJson(500, "An unexpected error occurred while generating speech", NoLimit)

\* variant: request.json() outside the try
JsonCatch_Uncaught == Uncaught

\* the catch block around request.json()
JsonCatch == ErrorJson(400, "Invalid JSON in request body", NoLimit)

\* POST(request) with process.env read as apiKey, the provider doing o
POST(apiKey, body, o) ==
    IF KeyNotConfigured(apiKey)
    THEN Handled(ErrorJson(500, "Server configuration error: API key not set", NoLimit), <<>>, <<>>)
    ELSE IF body.parse = "malformed"
    THEN Handled(JsonCatch, <<>>, <<>>)
    ELSE IF body.parse = "null"
    THEN Handled(Uncaught, <<>>, <<>>)      \* const { text, voice_id } = null
    ELSE IF TextMissing(body.text)
    THEN Handled(ErrorJson(400, "Text is required and must be a string", NoLimit), <<>>, <<>>)
    ELSE IF TextEmpty(body.text)
    THEN Handled(ErrorJson(400, "Text cannot be empty", NoLimit), <<>>, <<>>)
    ELSE IF TextTooLong(body.text)
    THEN Handled(ErrorJson(400, "Text exceeds maximum length of {limit} characters",
                           MAX_TEXT_LENGTH), <<>>, <<>>)
    ELSE IF VoiceIdMissing(body.voice_id)
    THEN Handled(ErrorJson(400, "Voice ID is required and must be a string", NoLimit), <<>>, <<>>)
    ELSE LET trimmedText == Trim(body.text.s)
             call == [fn |-> "generateSpeech", apiKey |-> apiKey, text |-> trimmedText,
                      voiceId |-> body.voice_id.s]
             r == GenerateSpeech(apiKey, trimmedText, body.voice_id.s, o)
             fetches == IF r.fetched THEN <<[call EXCEPT !.fn = "text-to-speech"] @@ [answer |-> o]>>
                        ELSE <<>>
         IN  Handled(IF r.threw = "none" THEN AudioResponse(r.bytes) ELSE GenerateCatch(r),
                     <<call>>, fetches)

\* variant: an unexpected error's own message is sent to the client
VoicesCatch_ForwardsMessage(r) ==
    IF r.threw = "ElevenLabsError"
    THEN LET statusCode == IF r.statusCode = 0 THEN 500 ELSE r.statusCode
         IN  ErrorJson(IF statusCode >= 500 THEN 500 ELSE statusCode,
                       "Failed to fetch voices", NoLimit)
    ELSE ErrorJson(500, r.message, NoLimit)

\* the catch block of GET
VoicesCatch(r) ==
    IF r.threw = "ElevenLabsError"
    THEN LET statusCode == IF r.statusCode = 0 THEN 500 ELSE r.statusCode
             clientMessage ==
               IF statusCode = 401 THEN "Invalid API key configuration"
               ELSE IF statusCode = 429 THEN "Rate limit exceeded, please try again later"
               ELSE "Failed to fetch voices"
         IN  ErrorJson(IF statusCode >= 500 THEN 500 ELSE statusCode, clientMessage, NoLimit)
    ELSE ErrorJson(500, "An unexpected error occurred", NoLimit)

\* GET() with process.env read as apiKey, the provider doing o
GET(apiKey, o) ==
    IF KeyNotConfigured(apiKey)
    THEN Handled(ErrorJson(500, "Server configuration error: API key not set", NoLimit), <<>>, <<>>)
    ELSE LET call == [fn |-> "fetchElevenLabsVoices", apiKey |-> apiKey, text |-> <<>>,
                      voiceId |-> <<>>]
             r == FetchElevenLabsVoices(apiKey, o)
             fetches == IF r.fetched THEN <<[call EXCEPT !.fn = "voices"] @@ [answer |-> o]>>
                        ELSE <<>>
         IN  Handled(IF r.threw = "none" THEN VoicesJson(r.list) ELSE VoicesCatch(r),
                     <<call>>, fetches)

NoBody == [parse |-> "none", text |-> Undefined, voice_id |-> Undefined]

\* the characters of a voice id the Orchestrator holds
VoiceIdChars(v) ==
    CASE v = "v1" -> <<"v", "1">>
      [] v = "v2" -> <<"v", "2">>
      [] OTHER -> <<>>

\* JSON.stringify({text, voice_id}) as request.json() reads it back
OrchestratorBody(req) ==
    [parse |-> "value", text |-> JStr(req.text),
     voice_id |-> IF req.voice_id = Null THEN JNull ELSE JStr(VoiceIdChars(req.voice_id))]

\* the provider's answer is drawn only when the handler fetches
AnswersTo(h) == IF h.upstreamCalls = <<>> THEN {NoAnswer} ELSE ProviderOutcomes

\* a POST /api/generate-voice request is handled
HandlePOST ==
    \E body \in Bodies : \E o \in AnswersTo(POST(ReadApiKey, body, NoAnswer)) :
      LET h == POST(ReadApiKey, body, o) IN
      /\ lastRequest' = [endpoint |-> "POST", key |-> env, body |-> body]
      /\ lastResponse' = h.response
      /\ clientCalls' = h.clientCalls
      /\ upstreamCalls' = h.upstreamCalls
      /\ UNCHANGED <<env, clientVars>>

\* a GET /api/voices request is handled
HandleGET ==
    \E o \in AnswersTo(GET(ReadApiKey, NoAnswer)) :
      LET h == GET(ReadApiKey, o) IN
      /\ lastRequest' = [endpoint |-> "GET", key |-> env, body |-> NoBody]
      /\ lastResponse' = h.response
      /\ clientCalls' = h.clientCalls
      /\ upstreamCalls' = h.upstreamCalls
      /\ UNCHANGED <<env, clientVars>>

\* the operator changes the environment between requests
SetEnv ==
    /\ \E k \in EnvValues : env' = k
    /\ UNCHANGED <<lastRequest, lastResponse, clientCalls, upstreamCalls, clientVars>>

(***************************************************************************)
(* Specifications                                                          *)
(***************************************************************************)
ClientInit ==
    /\ lifecycle = "rendered"
    /\ storyText = <<>>
    /\ voices = <<>>
    /\ selectedVoiceId = Null
    /\ audioUrl = NoUrl
    /\ isLoadingVoices = TRUE
    /\ isGenerating = FALSE
    /\ error = Null
    /\ hasError = FALSE
    /\ voicesFetch = "none"
    /\ voicesRequests = 0
    /\ genInFlight = <<>>
    /\ voicesSettled = NoVoicesOutcome
    /\ generateSettled = NoOutcome
    /\ started = 0
    /\ succeeded = 0
    /\ failed = 0
    /\ created = 0
    /\ revoked = <<>>

ServerInit ==
    /\ env = Null
    /\ lastRequest = [endpoint |-> "none", key |-> Null, body |-> NoBody]
    /\ lastResponse = NoResponse
    /\ clientCalls = <<>>
    /\ upstreamCalls = <<>>

Init == ClientInit /\ ServerInit

Next ==
    \/ MountEffects
    \/ LoadVoicesSettled
    \/ HandleChange
    \/ HandleVoiceChange
    \/ ClickGenerate
    \/ HandleGenerateSettled
    \/ AudioError
    \/ Unmount

Spec == Init /\ [][Next]_vars

ServerNext ==
    \/ HandlePOST
    \/ HandleGET
    \/ SetEnv

ServerSpec == Init /\ [][ServerNext]_vars

\* the event loop runs a continuation once its promise has settled, and the
\* mount effect once the first render is committed
LiveSpec ==
    /\ Spec
    /\ WF_vars(MountEffects)
    /\ WF_vars(LoadVoicesSettled)
    /\ WF_vars(HandleGenerateSettled)

(***************************************************************************)
(* Orchestrator: audio resource lifecycle                                  *)
(***************************************************************************)
RevokeCount(u) == Cardinality({i \in 1..Len(revoked) : revoked[i] = u})

\* C1: after N >= 1 successful generations in a row since mount (none failed,
\* none in progress) exactly one blob URL is live and revokeObjectURL has been
\* called N-1 times; once Home is then torn down it has been called N times.
C1_ConsecutiveSuccesses ==
    /\ (lifecycle = "mounted" /\ failed = 0 /\ succeeded >= 1 /\ ~isGenerating)
          => (Cardinality(LiveUrls) = 1 /\ Len(revoked) = succeeded - 1)
    /\ (lifecycle = "unmounted" /\ failed = 0 /\ succeeded >= 1)
          => Len(revoked) = succeeded

C1_Witness ==
    /\ lifecycle = "unmounted"
    /\ failed = 0
    /\ succeeded = 2
    /\ ~isGenerating
    /\ Len(revoked) = 2

\* C2: every blob URL created is revoked exactly once: none twice, and once
\* Home is torn down and every outstanding response has been delivered none
\* is left unrevoked (a response delivered after the teardown included).
C2_EveryUrlRevokedOnce ==
    /\ \A u \in 1..created : RevokeCount(u) <= 1
    /\ (lifecycle = "unmounted" /\ genInFlight = <<>>) => LiveUrls = {}

\* C3: while Home is mounted at most one created and not yet revoked blob
\* URL exists, whatever successes, failures and playback errors came before.
C3_AtMostOneLiveUrl ==
    lifecycle = "mounted" => Cardinality(LiveUrls) <= 1

C3_Witness ==
    /\ lifecycle = "mounted"
    /\ succeeded >= 2
    /\ failed >= 1
    /\ error = "Failed to play audio"
    /\ LiveUrls = {audioUrl}

(***************************************************************************)
(* Orchestrator: the generating flag                                       *)
(***************************************************************************)
\* C4: at most one generate request is in flight, and while isGenerating is
\* true the only control wired to handleGenerate, the button, cannot fire.
C4_SingleInFlight ==
    /\ Len(genInFlight) <= 1
    /\ isGenerating => ~ENABLED ClickGenerate

C4_Witness ==
    /\ isGenerating
    /\ Len(genInFlight) = 1
    /\ started = 2
    /\ lifecycle = "mounted"

\* C5: a generation of a mounted Home does not stay generating: every
\* settling of its request (audio, error response, unexpected content type,
\* thrown exception) leaves isGenerating false, and each request settles.
C5_GeneratingEnds ==
    /\ [][(lifecycle = "mounted" /\ Len(genInFlight') < Len(genInFlight))
            => ~isGenerating']_vars
    /\ (lifecycle = "mounted" /\ isGenerating)
          ~> (~isGenerating \/ lifecycle = "unmounted")

C5_Witness ==
    /\ lifecycle = "mounted"
    /\ failed = 2
    /\ succeeded = 1
    /\ ~isGenerating
    /\ error = "Network error. Please try again."

(***************************************************************************)
(* Orchestrator: retry after a failure                                     *)
(***************************************************************************)
\* what the user can put into the text box, and pick in the voice selector
TypeableTexts ==
    {storyText} \cup (IF StoryInputDisabled THEN {}
                      ELSE {t \in Texts : Len(t) <= MAX_TEXT_LENGTH})
SelectableVoices ==
    {selectedVoiceId} \cup (IF VoiceSelectorDisabled THEN {} ELSE Range(voices))

\* C6: whenever an error is shown and nothing is pending, the text box and
\* the voice selector can be set so that the generate button is enabled.
C6_RetryAlwaysPossible ==
    (lifecycle = "mounted" /\ error # Null /\ voicesFetch = "settled" /\ genInFlight = <<>>)
      => \E t \in TypeableTexts, v \in SelectableVoices :
            ~GenerateButtonDisabled(t, v, isLoadingVoices, isGenerating)

(***************************************************************************)
(* Generate endpoint: validation and configuration                         *)
(***************************************************************************)
HandledPOST == lastRequest.endpoint = "POST"
KeyAtRequestConfigured == lastRequest.key \notin {Null, "", "your_key_here"}
NoProviderCall == clientCalls = <<>> /\ upstreamCalls = <<>>

\* the request body is JSON with a string `text` that is empty once trimmed
BlankText(body) ==
    body.parse = "value" /\ body.text.t = "string" /\ Trim(body.text.s) = <<>>

\* the request body is no JSON, or fails a text or voice_id check
FailsValidation(body) ==
    \/ body.parse = "malformed"
    \/ body.text.t # "string"
    \/ Trim(body.text.s) = <<>>
    \/ Len(body.text.s) > MAX_TEXT_LENGTH
    \/ body.voice_id.t # "string"
    \/ body.voice_id.s = <<>>

\* C7: with a configured credential (one of the configuration states the
\* claim covers), a generate request whose body is malformed JSON or fails
\* text/voice_id validation is answered 400 and causes no provider call.
C7_InvalidRequestIs400 ==
    (HandledPOST /\ KeyAtRequestConfigured /\ FailsValidation(lastRequest.body))
      => (lastResponse.status = 400 /\ NoProviderCall)

C9_BlankTextIs400 ==
    (HandledPOST /\ KeyAtRequestConfigured /\ BlankText(lastRequest.body))
      => (lastResponse.status = 400 /\ NoProviderCall)

C9_Witness ==
    /\ HandledPOST
    /\ lastRequest.key = "sk-1"
    /\ lastRequest.body.text = JStr(<<" ", " ">>)
    /\ lastRequest.body.voice_id = JStr(<<"v">>)
    /\ lastResponse.status = 400
    /\ NoProviderCall

\* C10: with a configured credential, a generate request whose text is a
\* string that is empty after trimming, the empty string included, is
\* answered 400 with the message "Text cannot be empty".
C10_BlankTextMessage ==
    (HandledPOST /\ KeyAtRequestConfigured /\ BlankText(lastRequest.body))
      => (lastResponse.status = 400 /\ lastResponse.error = "Text cannot be empty")

(***************************************************************************)
(* Generate endpoint: order of validation, length limit, malformed JSON    *)
(***************************************************************************)
\* the number a formatted text stands for, separators skipped
RECURSIVE ReadNumber(_)
ReadNumber(str) ==
    IF str = <<>> THEN 0
    ELSE LET c == str[Len(str)]
             rest == SubSeq(str, 1, Len(str) - 1)
         IN  IF c = "," THEN ReadNumber(rest)
             ELSE 10 * ReadNumber(rest) + ((CHOOSE i \in 1..10 : DigitChars[i] = c) - 1)

LimitMessage == "Text exceeds maximum length of {limit} characters"

\* the message of the earliest failing check in the documented order, Null
\* when none of the five fails
EarliestFailure(body) ==
    IF body.parse = "malformed" THEN "Invalid JSON in request body"
    ELSE IF body.text.t # "string" THEN "Text is required and must be a string"
    ELSE IF Trim(body.text.s) = <<>> THEN "Text cannot be empty"
    ELSE IF Len(body.text.s) > MAX_TEXT_LENGTH THEN LimitMessage
    ELSE IF body.voice_id.t # "string" THEN "Voice ID is required and must be a string"
    ELSE Null

\* C11: with a configured credential, a request that fails several checks is
\* answered 400 with the message of the earliest failing one, in the order
\* malformed JSON, text missing or not a string, trimmed text empty, text too
\* long, voice_id missing or not a string.
C11_EarliestFailureAnswers ==
    (HandledPOST /\ KeyAtRequestConfigured /\ EarliestFailure(lastRequest.body) # Null)
      => /\ lastResponse.status = 400
         /\ lastResponse.error = EarliestFailure(lastRequest.body)

\* C12: with a configured credential, non-blank text longer than the maximum,
\* measured as received, is answered 400 with the message that states the
\* limit and causes no provider call; text exactly as long as the maximum is
\* not answered with that message.
C12_TooLongIs400 ==
    (HandledPOST /\ KeyAtRequestConfigured /\ lastRequest.body.parse = "value"
       /\ lastRequest.body.text.t = "string" /\ Trim(lastRequest.body.text.s) # <<>>)
      => /\ Len(lastRequest.body.text.s) > MAX_TEXT_LENGTH
            => /\ lastResponse.status = 400
               /\ lastResponse.error = LimitMessage
               /\ ReadNumber(lastResponse.limit) = MAX_TEXT_LENGTH
               /\ NoProviderCall
         /\ Len(lastRequest.body.text.s) = MAX_TEXT_LENGTH
            => lastResponse.error # LimitMessage

\* a text over the limit whose trimmed text is within it
C12_Witness ==
    /\ HandledPOST
    /\ KeyAtRequestConfigured
    /\ lastRequest.body.text.t = "string"
    /\ Len(lastRequest.body.text.s) > MAX_TEXT_LENGTH
    /\ Trim(lastRequest.body.text.s) # <<>>
    /\ Len(Trim(lastRequest.body.text.s)) < MAX_TEXT_LENGTH
    /\ lastRequest.body.voice_id = JStr(<<"v">>)
    /\ lastResponse.error = LimitMessage

\* C13: with a configured credential, a body that is not parseable JSON is
\* answered 400 with the error envelope "Invalid JSON in request body", and
\* no provider call is made.
C13_MalformedJsonIs400 ==
    (HandledPOST /\ KeyAtRequestConfigured /\ lastRequest.body.parse = "malformed")
      => /\ lastResponse.status = 400
         /\ lastResponse.kind = "json"
         /\ lastResponse.success = FALSE
         /\ lastResponse.error = "Invalid JSON in request body"
         /\ NoProviderCall

C13_Witness ==
    /\ HandledPOST
    /\ lastRequest.key = "sk-2"
    /\ lastRequest.body.parse = "malformed"
    /\ lastResponse.status = 400

(***************************************************************************)
(* Both endpoints: provider failures                                       *)
(***************************************************************************)
HandledGET == lastRequest.endpoint = "GET"

\* the provider answered the handler's fetch with a non-success status
ProviderFailed == upstreamCalls # <<>> /\ upstreamCalls[1].answer.kind = "answer"
                    /\ upstreamCalls[1].answer.status # 200
ProviderStatus == upstreamCalls[1].answer.status

IsErrorEnvelope(resp) == resp.kind = "json" /\ resp.success = FALSE

\* C14: a synthesis call the provider rejects with 401, 422 or 429 is answered
\* with the same status and the error envelope with the message of that status.
C14_ClassifiedStatusMirrored ==
    (HandledPOST /\ ProviderFailed /\ ProviderStatus \in {401, 422, 429})
      => /\ lastResponse.status = ProviderStatus
         /\ IsErrorEnvelope(lastResponse)
         /\ lastResponse.error =
              CASE ProviderStatus = 401 -> "Authentication failed with speech service"
                [] ProviderStatus = 422 -> "Invalid request: please check your text and try again"
                [] ProviderStatus = 429 -> "Speech service rate limit exceeded, please try again later"

C14_Witness ==
    /\ HandledPOST
    /\ ProviderFailed
    /\ ProviderStatus = 422
    /\ lastResponse.status = 422

\* C15: a synthesis failure with any other status is answered 500 with the
\* generic message, so every response of the generate endpoint has a status
\* in {200, 400, 401, 422, 429, 500}.
C15_OtherStatusIs500 ==
    HandledPOST
      => /\ (ProviderFailed /\ ProviderStatus \notin {401, 422, 429})
              => /\ lastResponse.status = 500
                 /\ IsErrorEnvelope(lastResponse)
                 /\ lastResponse.error = "Failed to generate speech"
         /\ lastResponse.status \in {200, 400, 401, 422, 429, 500}

\* C16: a provider failure of the voices call is answered with the error
\* envelope and status 401 for 401, 429 for 429 and 500 for any other or
\* missing status, so every response of the voices endpoint has a status in
\* {200, 401, 429, 500}.
C16_VoicesStatusMirrored ==
    HandledGET
      => /\ ProviderFailed
              => /\ IsErrorEnvelope(lastResponse)
                 /\ lastResponse.status =
                      IF ProviderStatus \in {401, 429} THEN ProviderStatus ELSE 500
         /\ lastResponse.status \in {200, 401, 429, 500}

(***************************************************************************)
(* Both endpoints: what an error response may carry                        *)
(***************************************************************************)
\* the messages the two handlers can send; the limit of the length message
\* travels in the response's limit field
FixedMessages ==
    {"Server configuration error: API key not set",
     "Invalid JSON in request body",
     "Text is required and must be a string",
     "Text cannot be empty",
     LimitMessage,
     "Voice ID is required and must be a string",
     "Authentication failed with speech service",
     "Invalid request: please check your text and try again",
     "Speech service rate limit exceeded, please try again later",
     "Failed to generate speech",
     "An unexpected error occurred while generating speech",
     "Invalid API key configuration",
     "Rate limit exceeded, please try again later",
     "Failed to fetch voices",
     "An unexpected error occurred"}

ConfiguredKeys == {"sk-1", "sk-2"}
ProviderAnswer == IF upstreamCalls = <<>> THEN NoAnswer ELSE upstreamCalls[1].answer

\* the provider's answer with the same status but another body and message
SaidInstead(o, said) ==
    IF o.kind = "answer" /\ o.status # 200
    THEN [o EXCEPT !.raw = said.raw, !.statusText = said.statusText]
    ELSE o

\* the response to the request just handled, had the credential been k and
\* the provider's failure said something else
ResponseUnder(k, said) ==
    IF HandledPOST
    THEN POST(k, lastRequest.body, SaidInstead(ProviderAnswer, said)).response
    ELSE GET(k, SaidInstead(ProviderAnswer, said)).response

\* C17: an error response in the envelope carries one of the fixed messages
\* (the length message with the configured limit), and the response to a
\* request is the same whatever the raw body and message of the provider's
\* failure and whichever credential is configured.
C17_NoLeak ==
    (HandledPOST \/ HandledGET)
      => /\ IsErrorEnvelope(lastResponse)
              => /\ lastResponse.error \in FixedMessages
                 /\ lastResponse.limit \in {NoNumber, ToLocaleString(MAX_TEXT_LENGTH)}
         /\ lastResponse.status >= 400
              => /\ lastResponse.error \notin ConfiguredKeys
                 /\ \A said \in ProviderSaid :
                      lastResponse.error \notin {said.raw, said.statusText}
         /\ lastRequest.key \in ConfiguredKeys
              => \A k \in ConfiguredKeys : \A said \in ProviderSaid :
                   ResponseUnder(k, said) = lastResponse

C17_Witness ==
    /\ HandledPOST
    /\ lastRequest.key = "sk-2"
    /\ ProviderFailed
    /\ ProviderStatus = 404
    /\ ProviderAnswer.raw = "raw-2"
    /\ IsErrorEnvelope(lastResponse)
    /\ lastResponse.error = "Failed to generate speech"

(***************************************************************************)
(* Generate endpoint: the audio response                                   *)
(***************************************************************************)
ProviderSucceeded == upstreamCalls # <<>> /\ upstreamCalls[1].answer.kind = "answer"
                       /\ upstreamCalls[1].answer.status = 200

\* C18: when the synthesis succeeds the response is 200, its body is the
\* provider's payload byte for byte, its Content-Type is audio/mpeg, its
\* Content-Length is the payload's byte count, its Cache-Control is
\* "private, max-age=3600" and its Content-Disposition is inline with a
\* filename.
C18_AudioPassedThrough ==
    (HandledPOST /\ ProviderSucceeded)
      => /\ lastResponse.status = 200
         /\ lastResponse.kind = "audio"
         /\ lastResponse.bytes = ProviderAnswer.bytes
         /\ lastResponse.contentType = "audio/mpeg"
         /\ lastResponse.contentLength # NoNumber
         /\ ReadNumber(lastResponse.contentLength) = Len(ProviderAnswer.bytes)
         /\ lastResponse.cacheControl = "private, max-age=3600"
         /\ lastResponse.contentDisposition = "inline; filename=\"generated-audio.mp3\""

C18_Witness ==
    /\ HandledPOST
    /\ ProviderSucceeded
    /\ ProviderAnswer.bytes = <<1, 2>>
    /\ lastResponse.bytes = <<1, 2>>
    /\ lastResponse.contentLength = <<"2">>

(***************************************************************************)
(* Generate endpoint: statelessness                                        *)
(***************************************************************************)
\* the step handles the same request under the same configuration as the
\* request before it, and the provider, where asked both times, answers alike
SameRequestAgain ==
    /\ HandledPOST
    /\ lastRequest' = lastRequest
    /\ (upstreamCalls # <<>> /\ upstreamCalls' # <<>>)
         => upstreamCalls'[1].answer = upstreamCalls[1].answer

C20_OneProviderCall ==
    (HandledPOST \/ HandledGET)
      => /\ Len(upstreamCalls) <= 1
         /\ Len(clientCalls) <= 1
         /\ Len(upstreamCalls) =
              IF KeyAtRequestConfigured
                   /\ (HandledPOST => ~FailsValidation(lastRequest.body))
              THEN 1 ELSE 0
         /\ (lastResponse.status >= 400 /\ upstreamCalls # <<>>)
              => Len(upstreamCalls) = 1

C20_Witness ==
    /\ HandledPOST
    /\ ProviderFailed
    /\ ProviderStatus = 503
    /\ lastResponse.status = 500
    /\ Len(upstreamCalls) = 1

(***************************************************************************)
(* Both endpoints: unexpected failures of the provider call                *)
(***************************************************************************)
\* the provider call threw something other than an ElevenLabsError: the fetch
\* rejected, or the body of a 200 answer could not be read
ProviderCallThrew ==
    upstreamCalls # <<>> /\ upstreamCalls[1].answer.kind \in {"reject", "broken"}

\* C21: when the provider call fails with anything other than a classified
\* provider error, either endpoint answers 500 with the error envelope and
\* its generic unexpected-error message, not the text of the thrown error.
C21_UnexpectedIs500 ==
    ((HandledPOST \/ HandledGET) /\ ProviderCallThrew)
      => /\ lastResponse.status = 500
         /\ IsErrorEnvelope(lastResponse)
         /\ lastResponse.error =
              IF HandledPOST
              THEN "An unexpected error occurred while generating speech"
              ELSE "An unexpected error occurred"
         /\ lastResponse.error \notin {"fetch failed", "Unexpected end of JSON input"}

C21_Witness ==
    /\ HandledGET
    /\ ProviderCallThrew
    /\ ProviderAnswer.kind = "reject"
    /\ lastResponse.status = 500
    /\ lastResponse.error = "An unexpected error occurred"

(***************************************************************************)
(* Orchestrator: what a settled generate request leaves behind             *)
(***************************************************************************)
\* a step in which a generate request of the mounted Home settles
GenerateSettles == lifecycle = "mounted" /\ Len(genInFlight') < Len(genInFlight)

\* the response that settled is not successful
NotSuccessful(o) == o.kind = "response" /\ (o.status < 200 \/ o.status > 299)

\* the message of the response's envelope, Null when the body is no envelope
\* or the envelope has none
EnvelopeMessage(o) == IF o.body = "envelope" THEN o.error ELSE Null

\* C22: when a generate request settles with a non-successful response,
\* whatever its body, error becomes the envelope's message or, when there is
\* none, the fallback message with the numeric status; audioUrl stays unset
\* and isGenerating becomes false.
C22_NotOkSetsError ==
    [][(GenerateSettles /\ NotSuccessful(generateSettled'))
         => /\ error' = IF EnvelopeMessage(generateSettled') # Null
                        THEN EnvelopeMessage(generateSettled')
                        ELSE FallbackMessage(generateSettled'.status)
            /\ audioUrl = NoUrl
            /\ audioUrl' = NoUrl
            /\ ~isGenerating']_vars

\* the response that settled is successful (2xx)
Successful(o) == o.kind = "response" /\ o.status >= 200 /\ o.status <= 299

\* the header declares the media type audio/mpeg, with or without parameters
DeclaresAudioMpeg(contentType) ==
    /\ contentType # NoHeader
    /\ contentType[1] = "audio/mpeg"
    /\ Len(contentType) > 1 => contentType[2] = "; charset=binary"

\* C23: when a generate request settles with a 2xx response whose declared
\* content type is not audio/mpeg, error becomes "Unexpected response format
\* from server", no blob URL is created, audioUrl stays unset and
\* isGenerating is cleared; a non-2xx response that declares audio/mpeg is an
\* error all the same.
C23_WrongContentType ==
    [][GenerateSettles
         => /\ (Successful(generateSettled')
                  /\ ~DeclaresAudioMpeg(generateSettled'.contentType))
                 => /\ error' = "Unexpected response format from server"
                    /\ created' = created
                    /\ audioUrl' = NoUrl
                    /\ ~isGenerating'
            /\ (NotSuccessful(generateSettled')
                  /\ DeclaresAudioMpeg(generateSettled'.contentType))
                 => /\ error' # Null
                    /\ created' = created
                    /\ audioUrl' = NoUrl
                    /\ ~isGenerating']_vars

(***************************************************************************)
(* Orchestrator: the guard of the generate action                          *)
(***************************************************************************)
\* storyText is empty or whitespace-only, or no voice is selected
NothingToGenerate ==
    (\A i \in 1..Len(storyText) : storyText[i] = " ") \/ selectedVoiceId \in {Null, ""}

\* what the generate action could touch: the state of Home, the requests in
\* flight and issued, and the blob URLs released
GenerateFrame ==
    <<storyText, voices, selectedVoiceId, audioUrl, isGenerating, error, hasError,
      genInFlight, started, revoked, created>>

\* C24: with storyText empty or whitespace-only, or no voice selected, the
\* generate action changes nothing and issues no request: storyText, voices,
\* selectedVoiceId, audioUrl, isGenerating and error stay as they are, an
\* error shown stays shown and an audio resource held is not released.
C24_GuardedNoOp ==
    (lifecycle = "mounted" /\ NothingToGenerate)
      => /\ ENABLED InvokeGenerate
         /\ ~ENABLED (InvokeGenerate /\ GenerateFrame' # GenerateFrame)

\* the text is cleared while an audio resource is held and a playback error
\* is shown
C24_Witness ==
    /\ lifecycle = "mounted"
    /\ NothingToGenerate
    /\ storyText = <<" ">>
    /\ selectedVoiceId # Null
    /\ audioUrl # NoUrl
    /\ audioUrl \notin Range(revoked)
    /\ error = "Failed to play audio"
    /\ ENABLED InvokeGenerate

(***************************************************************************)
(* Orchestrator: loading the voices                                        *)
(***************************************************************************)
\* the voices fetch of the mounted Home settles in this step
VoicesSettle ==
    lifecycle = "mounted" /\ voicesFetch = "pending" /\ voicesFetch' = "settled"

\* the fetch threw, its body was no JSON, or the envelope is not a success
\* with a voice list
VoicesFailed(o) == o.kind \in {"reject", "badjson"} \/ ~o.success \/ ~o.hasVoices

\* C25: isLoadingVoices is true from the first render until the voices fetch
\* settles, becomes false when it settles (success envelope, failure envelope
\* or thrown error alike) and is never true again; one voices request is
\* issued per mount; when the fetch fails error is set and voices stays empty.
C25_LoadingVoices ==
    /\ [](/\ (lifecycle = "rendered" \/ (lifecycle = "mounted" /\ voicesFetch = "pending"))
               => isLoadingVoices
          /\ (lifecycle = "mounted" /\ voicesFetch = "settled") => ~isLoadingVoices
          /\ voicesRequests = IF lifecycle = "rendered" THEN 0 ELSE 1)
    /\ [][/\ ~isLoadingVoices => ~isLoadingVoices'
          /\ VoicesSettle
               => /\ ~isLoadingVoices'
                  /\ VoicesFailed(voicesSettled')
                       => (error' # Null /\ voices' = <<>>)]_vars

C25_Witness ==
    /\ lifecycle = "mounted"
    /\ voicesFetch = "settled"
    /\ voicesSettled.kind = "json"
    /\ ~voicesSettled.success
    /\ voicesSettled.error = Null
    /\ ~isLoadingVoices
    /\ error = "Failed to load voices"
    /\ voices = <<>>
    /\ voicesRequests = 1

(***************************************************************************)
(* Orchestrator: the error value                                           *)
(***************************************************************************)
\* the messages a settled generate request can leave in error
GenerationErrors ==
    {"Network error. Please try again.", "Unexpected response format from server",
     "Generation failed (429)", "Generation failed (500)", "Generation failed (other)",
     "rate limited"}
VoicesErrors ==
    {"Failed to connect to server", "Failed to load voices",
     "Server configuration error: API key not set"}

\* C26: error holds one message or none; a failure replaces whatever was
\* there by its own message; a generate attempt that starts clears error in
\* the step that issues its request; when a generation completes with audio
\* error is unset.
C26_OneError ==
    /\ [](error \in {Null, "Failed to play audio"} \cup GenerationErrors \cup VoicesErrors)
    /\ [][/\ started' > started
               => (error' = Null /\ Len(genInFlight') = Len(genInFlight) + 1)
          /\ succeeded' > succeeded => (error = Null /\ error' = Null)
          /\ failed' > failed
               => (error' \in GenerationErrors /\ error' = GenerateResult(generateSettled'))
          /\ (VoicesSettle /\ VoicesFailed(voicesSettled')) => error' \in VoicesErrors
          /\ (hasError' /\ ~hasError) => error' = "Failed to play audio"]_vars

\* a generation that succeeded after one that failed
C26_Witness ==
    /\ lifecycle = "mounted"
    /\ failed = 1
    /\ succeeded = 1
    /\ audioUrl # NoUrl
    /\ ~isGenerating
    /\ error = Null

(***************************************************************************)
(* Orchestrator: the audio resource across generations                     *)
(***************************************************************************)
\* C27: the step that starts a generation unsets audioUrl and releases the
\* URL it held, so that every URL created earlier is already revoked when
\* the next one is created; while a generation runs, and after one that
\* fails, audioUrl is unset, whatever succeeded before.
C27_ReleasedBeforeNext ==
    /\ [](isGenerating => audioUrl = NoUrl)
    /\ [][/\ started' > started
               => /\ audioUrl' = NoUrl
                  /\ audioUrl # NoUrl => audioUrl \in Range(revoked')
          /\ created' > created => \A u \in 1..created : u \in Range(revoked)
          /\ failed' > failed => audioUrl' = NoUrl]_vars

\* two generations succeeded, then one failed
C27_Witness ==
    /\ lifecycle = "mounted"
    /\ created = 2
    /\ revoked = <<1, 2>>
    /\ failed = 1
    /\ ~isGenerating
    /\ error \in GenerationErrors
    /\ audioUrl = NoUrl

(***************************************************************************)
(* Orchestrator: the selected voice                                        *)
(***************************************************************************)
\* C28: selectedVoiceId is unset or the voice_id of an entry of voices; so a
\* generate request is issued only after the voices fetch has succeeded with
\* a non-empty list, and never while isLoadingVoices is true.
C28_SelectedVoiceKnown ==
    /\ [](selectedVoiceId = Null \/ \E i \in 1..Len(voices) : voices[i] = selectedVoiceId)
    /\ [][started' > started
            => /\ voicesFetch = "settled"
               /\ voicesSettled.kind = "json" /\ voicesSettled.success
               /\ voicesSettled.voices # <<>>
               /\ voices = voicesSettled.voices
               /\ ~isLoadingVoices
               /\ \E i \in 1..Len(voices) :
                    voices[i] = genInFlight'[Len(genInFlight')].voice_id]_vars

C28_Witness ==
    /\ lifecycle = "mounted"
    /\ isGenerating
    /\ Len(genInFlight) = 1
    /\ genInFlight[1].voice_id = "v2"
    /\ voices = <<"v1", "v2">>
    /\ ~isLoadingVoices

(***************************************************************************)
(* Orchestrator and generate endpoint together                             *)
(***************************************************************************)
\* the generate requests the Orchestrator has in flight, as the endpoint
\* reads them
RequestsInFlight == {OrchestratorBody(genInFlight[i]) : i \in 1..Len(genInFlight)}

\* C29: every generate request the Orchestrator issues passes the server's
\* validation (text within the shared limit and not blank, voice id a
\* non-empty string), so with a configured credential the endpoint answers
\* none of them with a 400, whatever the provider does.
C29_ClientRequestsNever400 ==
    \A body \in RequestsInFlight :
      /\ ~FailsValidation(body)
      /\ \A k \in ConfiguredKeys : \A o \in ProviderOutcomes :
           POST(k, body, o).response.status # 400

(***************************************************************************)
(* Orchestrator: error and audio together                                  *)
(***************************************************************************)
\* C30: while isGenerating is true error and audioUrl are both unset; and
\* when error and audioUrl are both set the error is the playback error
\* "Failed to play audio", not a generation or voices-load error.
C30_ErrorWithAudio ==
    /\ isGenerating => (error = Null /\ audioUrl = NoUrl)
    /\ (error # Null /\ audioUrl # NoUrl)
         => /\ error = "Failed to play audio"
            /\ error \notin GenerationErrors \cup VoicesErrors

\* the first generation succeeded and its audio failed to play
C30_Witness ==
    /\ lifecycle = "mounted"
    /\ started = 1
    /\ succeeded = 1
    /\ audioUrl = 1
    /\ hasError
    /\ ~isGenerating
    /\ error = "Failed to play audio"

====
